---------------------------- MODULE Spec2Model ----------------------------
(***************************************************************************)
(* A model of the type-inference engine of api-to-ts-interface             *)
(* (src/scripts/parser.ts, class APIParser).                               *)
(*                                                                         *)
(* Strings are sequences of one-character strings, so that name            *)
(* normalisation, counter suffixes and fingerprints are computed           *)
(* character by character as the code computes them.  A sampled value is   *)
(* a record tagged with its runtime kind.  One APIParser instance is the   *)
(* state; parse() is one action.                                           *)
(***************************************************************************)
EXTENDS Integers, Sequences, FiniteSets, TLC

(***************************************************************************)
(* Characters and strings                                                  *)
(***************************************************************************)

LowerChars == <<"a","b","c","d","e","f","g","h","i","j","k","l","m",
                "n","o","p","q","r","s","t","u","v","w","x","y","z">>

UpperChars == <<"A","B","C","D","E","F","G","H","I","J","K","L","M",
                "N","O","P","Q","R","S","T","U","V","W","X","Y","Z">>

DigitChars == <<"0","1","2","3","4","5","6","7","8","9">>

\* The characters the model uses, in UTF-16 code unit order.
CharOrder == <<" ", "+", "-", ".">> \o DigitChars \o <<":">> \o UpperChars
             \o <<"[", "]", "_">> \o LowerChars \o <<"{", "|", "}">>

Range(s) == {s[i] : i \in DOMAIN s}

IndexIn(c, s) == CHOOSE i \in DOMAIN s : s[i] = c

IsLower(c) == c \in Range(LowerChars)

IsUpper(c) == c \in Range(UpperChars)

IsDigit(c) == c \in Range(DigitChars)

IsAlnum(c) == IsLower(c) \/ IsUpper(c) \/ IsDigit(c)

\* String.prototype.toUpperCase on one character.
ToUpper(c) == IF IsLower(c) THEN UpperChars[IndexIn(c, LowerChars)] ELSE c

CharCode(c) == IndexIn(c, CharOrder)

\* s < t in the order of Array.prototype.sort without a comparator
\* (lexicographic by code unit, a proper prefix first).
RECURSIVE StrLess(_, _)
StrLess(s, t) ==
    IF t = <<>> THEN FALSE
    ELSE IF s = <<>> THEN TRUE
    ELSE IF s[1] = t[1] THEN StrLess(Tail(s), Tail(t))
    ELSE CharCode(s[1]) < CharCode(t[1])

\* Number -> decimal string, as a template literal prints a count.
RECURSIVE NumToStr(_)
NumToStr(n) ==
    IF n < 10 THEN <<DigitChars[n + 1]>>
    ELSE NumToStr(n \div 10) \o <<DigitChars[(n % 10) + 1]>>

\* The string literals of the source.
StrAny == <<"a","n","y">>
StrString == <<"s","t","r","i","n","g">>
StrNumber == <<"n","u","m","b","e","r">>
StrBoolean == <<"b","o","o","l","e","a","n">>
StrDate == <<"D","a","t","e">>
StrArray == <<"a","r","r","a","y">>
StrObject == <<"o","b","j","e","c","t">>
StrNull == <<"n","u","l","l">>
StrUndefined == <<"u","n","d","e","f","i","n","e","d">>
StrFunction == <<"f","u","n","c","t","i","o","n">>
StrBrackets == <<"[","]">>
StrItem == <<"I","t","e","m">>
StrInterface == <<"i","n","t","e","r","f","a","c","e">>
StrParser == <<"p","a","r","s","e","r">>
ApiResponse == <<"A","p","i","R","e","s","p","o","n","s","e">>

(***************************************************************************)
(* toPascalCase                                                            *)
(***************************************************************************)

\* .replace(/([-_][a-z])/g, g => g.toUpperCase().replace('-','').replace('_',''))
RECURSIVE ReplaceSeparators(_)
ReplaceSeparators(s) ==
    IF s = <<>> THEN <<>>
    ELSE IF Len(s) >= 2 /\ s[1] \in {"-", "_"} /\ IsLower(s[2])
         THEN <<ToUpper(s[2])>> \o ReplaceSeparators(SubSeq(s, 3, Len(s)))
         ELSE <<s[1]>> \o ReplaceSeparators(Tail(s))

\* .replace(/^[a-z]/, c => c.toUpperCase())
CapitalizeFirst(s) ==
    IF s # <<>> /\ IsLower(s[1]) THEN <<ToUpper(s[1])>> \o Tail(s) ELSE s

\* .replace(/[^a-zA-Z0-9]/g, '')
StripNonAlnum(s) == SelectSeq(s, IsAlnum)

ToPascalCase(str) == StripNonAlnum(CapitalizeFirst(ReplaceSeparators(str)))

(***************************************************************************)
(* isISO8601:                                                              *)
(* /^\d{4}-\d{2}-\d{2}T\d{2}:\d{2}:\d{2}(\.\d+)?([+-]\d{2}:\d{2}|Z)$/      *)
(***************************************************************************)

\* The pattern's fixed 19-character head, D standing for \d.
IsoHead == <<"D","D","D","D","-","D","D","-","D","D","T",
             "D","D",":","D","D",":","D","D">>

MatchesPattern(s, pat) ==
    /\ Len(s) = Len(pat)
    /\ \A i \in DOMAIN pat :
          IF pat[i] = "D" THEN IsDigit(s[i]) ELSE s[i] = pat[i]

\* ([+-]\d{2}:\d{2}|Z)$
IsZone(s) ==
    \/ s = <<"Z">>
    \/ /\ Len(s) = 6
       /\ s[1] \in {"+", "-"}
       /\ MatchesPattern(Tail(s), <<"D","D",":","D","D">>)

\* (\.\d*)? followed by the zone: a fraction without digits passes.
IsFractionOrDotThenZone(s) ==
    \/ IsZone(s)
    \/ /\ Len(s) >= 2
       /\ s[1] = "."
       /\ \E n \in 0..(Len(s) - 1) :
             /\ \A i \in 2..(n + 1) : IsDigit(s[i])
             /\ IsZone(SubSeq(s, n + 2, Len(s)))

\* (\.\d+)?  followed by the zone: every split of the tail is tried.
IsFractionThenZone(s) ==
    \/ IsZone(s)
    \/ /\ Len(s) >= 2
       /\ s[1] = "."
       /\ \E n \in 1..(Len(s) - 1) :
             /\ \A i \in 2..(n + 1) : IsDigit(s[i])
             /\ IsZone(SubSeq(s, n + 2, Len(s)))

IsISO8601(str) ==
    /\ Len(str) > Len(IsoHead)
    /\ MatchesPattern(SubSeq(str, 1, Len(IsoHead)), IsoHead)
    /\ IsFractionThenZone(SubSeq(str, Len(IsoHead) + 1, Len(str)))

(***************************************************************************)
(* Sampled values                                                          *)
(***************************************************************************)

Null == [k |-> "null"]
Undefined == [k |-> "undefined"]
Str(s) == [k |-> "string", s |-> s]
Num(n) == [k |-> "number", n |-> n]
Bool(b) == [k |-> "boolean", b |-> b]
Arr(items) == [k |-> "array", items |-> items]
\* entries: the sequence of <<key, value>> in the object's own key order
\* (keys are distinct and not integer-like, so Object.entries keeps
\* insertion order).
Obj(entries) == [k |-> "object", entries |-> entries]
\* A value of another runtime kind: a function stands for them.
Func == [k |-> "function"]

\* typeof value
TypeOf(v) ==
    CASE v.k = "null" -> StrObject
      [] v.k = "array" -> StrObject
      [] v.k = "object" -> StrObject
      [] v.k = "undefined" -> StrUndefined
      [] v.k = "string" -> StrString
      [] v.k = "number" -> StrNumber
      [] v.k = "boolean" -> StrBoolean
      [] v.k = "function" -> StrFunction

IsArray(v) == v.k = "array"

\* Object.keys(obj)
Keys(obj) == [i \in DOMAIN obj.entries |-> obj.entries[i][1]]

HasKey(obj, key) == \E i \in DOMAIN obj.entries : obj.entries[i][1] = key

\* obj[key]: undefined when the key is absent
Get(obj, key) ==
    IF HasKey(obj, key)
    THEN obj.entries[CHOOSE i \in DOMAIN obj.entries : obj.entries[i][1] = key][2]
    ELSE Undefined

(***************************************************************************)
(* Reference Matcher                                                       *)
(***************************************************************************)

\* A reference schema is a sampled value too (it is read from a hints
\* file): an object whose values name the expected kinds, or anything else.
\* A falsy value, as `!schema` and `if (refTypeName)` test it.
Falsy(v) ==
    \/ v.k \in {"null", "undefined"}
    \/ v.k = "string" /\ v.s = <<>>
    \/ v.k = "number" /\ v.n = 0
    \/ v.k = "boolean" /\ ~v.b

\* One pass of the `for (const key of schemaKeys)` loop: TRUE when none of
\* the five tests returns false.
KindAccepted(expectedType, actualValue) ==
    /\ ~(expectedType = Str(StrString) /\ TypeOf(actualValue) # StrString)
    /\ ~(expectedType = Str(StrNumber) /\ TypeOf(actualValue) # StrNumber)
    /\ ~(expectedType = Str(StrBoolean) /\ TypeOf(actualValue) # StrBoolean)
    /\ ~(expectedType = Str(StrArray) /\ ~IsArray(actualValue))
    /\ ~(expectedType = Str(StrObject) /\ TypeOf(actualValue) # StrObject)

StructurallyMatches(obj, schema) ==
    IF Falsy(schema) \/ schema.k # "object" THEN FALSE
    ELSE /\ \A i \in DOMAIN schema.entries : HasKey(obj, schema.entries[i][1])
         /\ \A i \in DOMAIN schema.entries :
               KindAccepted(schema.entries[i][2], Get(obj, schema.entries[i][1]))

\* referenceTypes: the sequence of <<name, schema>> in Object.entries order.
\* Returns Str(name) or Null.
RECURSIVE MatchFrom(_, _, _)
MatchFrom(obj, referenceTypes, i) ==
    IF i > Len(referenceTypes) THEN Null
    ELSE IF StructurallyMatches(obj, referenceTypes[i][2])
         THEN Str(referenceTypes[i][1])
         ELSE MatchFrom(obj, referenceTypes, i + 1)

MatchReferenceType(obj, referenceTypes) == MatchFrom(obj, referenceTypes, 1)

(***************************************************************************)
(* Shape Fingerprinter                                                     *)
(***************************************************************************)

\* Insert s into the sorted sequence of strings.
RECURSIVE InsertSorted(_, _)
InsertSorted(s, sorted) ==
    IF sorted = <<>> THEN <<s>>
    ELSE IF StrLess(s, sorted[1]) THEN <<s>> \o sorted
    ELSE <<sorted[1]>> \o InsertSorted(s, Tail(sorted))

\* Object.keys(obj).sort()
RECURSIVE SortStrings(_)
SortStrings(strs) ==
    IF strs = <<>> THEN <<>>
    ELSE InsertSorted(strs[1], SortStrings(Tail(strs)))

\* val === null ? 'null' : typeof val
ValType(val) == IF val.k = "null" THEN StrNull ELSE TypeOf(val)

\* parts.join('|')
RECURSIVE Join(_)
Join(parts) ==
    IF parts = <<>> THEN <<>>
    ELSE IF Len(parts) = 1 THEN parts[1]
    ELSE parts[1] \o <<"|">> \o Join(Tail(parts))

GetFingerprint(obj) ==
    LET keys == SortStrings(Keys(obj))
        parts == [i \in DOMAIN keys |->
                     keys[i] \o <<":">> \o ValType(Get(obj, keys[i]))]
    IN <<"{">> \o Join(parts) \o <<"}">>

(***************************************************************************)
(* Name Allocator                                                          *)
(***************************************************************************)

\* A Map as a function on its key set.
MapSet(m, key, val) ==
    [x \in (DOMAIN m) \cup {key} |-> IF x = key THEN val ELSE m[x]]

EmptyMap == [x \in {} |-> 0]

\* typeCounter.get(key) || 0
CounterOf(typeCounter, key) ==
    IF key \in DOMAIN typeCounter THEN typeCounter[key] ELSE 0

GenerateUniqueName(base, typeCounter) ==
    LET pascal == ToPascalCase(base)
        count == CounterOf(typeCounter, pascal)
    IN IF count = 0 THEN pascal ELSE pascal \o NumToStr(count)

(***************************************************************************)
(* Catalog                                                                 *)
(***************************************************************************)

\* st is the instance during one parse(): referenceTypes, visited,
\* typeCounter, typeMap, types (the content of the this.types array) and
\* trace (the record of the inferType calls on record values, kept for the
\* properties; the code does not read it).
\* addType without the typeMap.has test.
AddTypeUnchecked(st, type) ==
    [st EXCEPT !.typeMap = MapSet(st.typeMap, type.name, type),
               !.types = Append(st.types, type)]

\* addType that rebinds a name it already holds.
AddTypeOverwrite(st, type) ==
    IF type.name \notin DOMAIN st.typeMap
    THEN [st EXCEPT !.typeMap = MapSet(st.typeMap, type.name, type),
                    !.types = Append(st.types, type)]
    ELSE [st EXCEPT !.typeMap = MapSet(st.typeMap, type.name, type),
                    !.types = [i \in DOMAIN st.types |->
                                  IF st.types[i].name = type.name THEN type
                                  ELSE st.types[i]]]

AddType(st, type) ==
    IF type.name \notin DOMAIN st.typeMap
    THEN [st EXCEPT !.typeMap = MapSet(st.typeMap, type.name, type),
                    !.types = Append(st.types, type)]
    ELSE st

\* Lines 127-141 of inferType: count the name, add on the first count.
RegisterType(st, ifaceName, fields) ==
    LET count == CounterOf(st.typeCounter, ifaceName) + 1
        st1 == [st EXCEPT !.typeCounter = MapSet(st.typeCounter, ifaceName, count)]
    IN IF count = 1
       THEN AddType(st1, [name |-> ifaceName, kind |-> StrInterface, fields |-> fields])
       ELSE st1

\* required computed as val !== null alone.
RequiredNotNull(val) == val.k # "null"

\* val !== null && val !== undefined
Required(val) == val.k # "null" /\ val.k # "undefined"

(***************************************************************************)
(* Type Inference Engine                                                   *)
(***************************************************************************)

\* What a call on a record value can change.
Snapshot(st) ==
    [visited |-> st.visited, typeCounter |-> st.typeCounter, types |-> st.types]

\* The call's entry in the trace, appended when the call returns.
Logged(value, name, before, r) ==
    [r EXCEPT !.st.trace = Append(r.st.trace,
        [value |-> value,
         name |-> name,
         ret |-> r.ret,
         ref |-> MatchReferenceType(value, before.referenceTypes),
         before |-> Snapshot(before),
         after |-> Snapshot(r.st),
         nested |-> Len(r.st.trace) - Len(before.trace)])]

RECURSIVE InferType(_, _, _)
RECURSIVE InferFields(_, _, _, _)

\* The `for (const [key, val] of Object.entries(value))` loop from entry i.
InferFields(entries, i, fields, st) ==
    IF i > Len(entries) THEN [fields |-> fields, st |-> st]
    ELSE LET key == entries[i][1]
             val == entries[i][2]
             r == InferType(val, ToPascalCase(key), st)
         IN InferFields(entries, i + 1,
                Append(fields, [name |-> key, type |-> r.ret, required |-> Required(val)]),
                r.st)

\* The branch with the reference match tested after the fingerprint has
\* been recorded.
InferObjectLateReference(value, name, st) ==
    LET refTypeName == MatchReferenceType(value, st.referenceTypes)
        ifaceName == GenerateUniqueName(name, st.typeCounter)
        fingerprint == GetFingerprint(value)
        st1 == [st EXCEPT !.visited = st.visited \cup {fingerprint}]
        fr == InferFields(value.entries, 1, <<>>, st1)
    IN IF fingerprint \in st.visited /\ Falsy(refTypeName) THEN [ret |-> ifaceName, st |-> st]
       ELSE IF ~Falsy(refTypeName) THEN [ret |-> refTypeName.s, st |-> st1]
       ELSE [ret |-> ifaceName, st |-> RegisterType(fr.st, ifaceName, fr.fields)]

\* The `typeStr === 'object'` branch of inferType.
InferObject(value, name, st) ==
    LET refTypeName == MatchReferenceType(value, st.referenceTypes)
        ifaceName == GenerateUniqueName(name, st.typeCounter)
        fingerprint == GetFingerprint(value)
        st1 == [st EXCEPT !.visited = st.visited \cup {fingerprint}]
        fr == InferFields(value.entries, 1, <<>>, st1)
    IN IF ~Falsy(refTypeName) THEN [ret |-> refTypeName.s, st |-> st]
       ELSE IF fingerprint \in st.visited THEN [ret |-> ifaceName, st |-> st]
       ELSE [ret |-> ifaceName, st |-> RegisterType(fr.st, ifaceName, fr.fields)]

\* A fallback that answers with the value's typeof.
FallbackTypeof(value, st) == [ret |-> TypeOf(value), st |-> st]

\* The last statement of inferType, reached by a value of any other kind.
Fallback(value, st) == [ret |-> StrAny, st |-> st]

\* An array branch that samples the last element.
InferArrayLast(value, name, st) ==
    IF Len(value.items) = 0 THEN [ret |-> StrAny \o StrBrackets, st |-> st]
    ELSE LET r == InferType(value.items[Len(value.items)], name \o StrItem, st)
         IN [ret |-> r.ret \o StrBrackets, st |-> r.st]

\* The Array.isArray branch of inferType.
InferArray(value, name, st) ==
    IF Len(value.items) = 0 THEN [ret |-> StrAny \o StrBrackets, st |-> st]
    ELSE LET r == InferType(value.items[1], name \o StrItem, st)
         IN [ret |-> r.ret \o StrBrackets, st |-> r.st]

InferType(value, name, st) ==
    CASE value.k \in {"null", "undefined"} -> [ret |-> StrAny, st |-> st]
      [] value.k = "string" ->
            [ret |-> IF IsISO8601(value.s) THEN StrDate ELSE StrString, st |-> st]
      [] value.k = "number" -> [ret |-> StrNumber, st |-> st]
      [] value.k = "boolean" -> [ret |-> StrBoolean, st |-> st]
      [] value.k = "array" -> InferArray(value, name, st)
      [] value.k = "object" -> Logged(value, name, st, InferObject(value, name, st))
      [] OTHER -> Fallback(value, st)

(***************************************************************************)
(* Catalog Collector/Orderer                                               *)
(***************************************************************************)

\* this.types.filter(t => t.fields?.some(f => f.type === x.name)).length
RefCount(x, types) ==
    Cardinality({i \in DOMAIN types :
        \E j \in DOMAIN types[i].fields : types[i].fields[j].type = x.name})

\* The comparator handed to sort.
Compare(a, b, types) ==
    IF a.name = ApiResponse THEN -1
    ELSE IF b.name = ApiResponse THEN 1
    ELSE RefCount(a, types) - RefCount(b, types)

\* Array.prototype.sort is stable: x goes before the first element it
\* compares below.
RECURSIVE InsertByCompare(_, _, _)
InsertByCompare(x, sorted, types) ==
    IF sorted = <<>> THEN <<x>>
    ELSE IF Compare(x, sorted[1], types) < 0 THEN <<x>> \o sorted
    ELSE <<sorted[1]>> \o InsertByCompare(x, Tail(sorted), types)

RECURSIVE SortFrom(_, _, _)
SortFrom(i, sorted, types) ==
    IF i > Len(types) THEN sorted
    ELSE SortFrom(i + 1, InsertByCompare(types[i], sorted, types), types)

\* The content of the array after this.types.sort(...).
SortedTypes(types) == SortFrom(1, <<>>, types)

(***************************************************************************)
(* Inputs                                                                  *)
(***************************************************************************)

MaxNodes == 3

KeyA == <<"a">>
KeyUpperA == <<"A">>
KeyB == <<"b">>
FieldKeys == {KeyA, KeyUpperA, KeyB}

StrHi == <<"h","i">>
StrIso == <<"2","0","2","4","-","0","1","-","0","1","T",
            "0","0",":","0","0",":","0","0","Z">>

LeafValues == {Null, Undefined, Num(1), Str(StrHi), Str(StrIso), Bool(TRUE)}

\* The sequences of n distinct field keys.
KeySeqs(n) ==
    {ks \in [1..n -> FieldKeys] : \A i, j \in 1..n : i # j => ks[i] # ks[j]}

RECURSIVE TreesOfSize(_)
RECURSIVE ForestsOfSize(_)

\* The sequences of values with n nodes in all.
ForestsOfSize(n) ==
    IF n = 0 THEN {<<>>}
    ELSE UNION {{<<t>> \o f : t \in TreesOfSize(j), f \in ForestsOfSize(n - j)} :
                   j \in 1..n}

\* The values with exactly n nodes (a node is a value at any depth).
TreesOfSize(n) ==
    IF n = 1 THEN LeafValues \cup {Arr(<<>>), Obj(<<>>)}
    ELSE {Arr(f) : f \in ForestsOfSize(n - 1)}
         \cup UNION {{Obj([i \in DOMAIN f |-> <<ks[i], f[i]>>]) : ks \in KeySeqs(Len(f))} :
                        f \in {g \in ForestsOfSize(n - 1) : Len(g) <= Cardinality(FieldKeys)}}

SmallTrees == UNION {TreesOfSize(n) : n \in 1..MaxNodes}

KeyX == <<"x">>
KeyId == <<"i","d">>
KeyName == <<"n","a","m","e">>
KeyTags == <<"t","a","g","s">>
KeyCreatedAt == <<"c","r","e","a","t","e","d","A","t">>
KeyApiResponse == <<"a","p","i","_","r","e","s","p","o","n","s","e">>
StrAnn == <<"A","n","n">>

\* {"id": 1, "name": "Ann"}
ScenarioA == Obj(<< <<KeyId, Num(1)>>, <<KeyName, Str(StrAnn)>> >>)
\* {"tags": []}
ScenarioB == Obj(<< <<KeyTags, Arr(<<>>)>> >>)
\* {"createdAt": "2024-01-01T00:00:00Z"}
ScenarioC == Obj(<< <<KeyCreatedAt, Str(StrIso)>> >>)
\* {"a": {"x": 1}, "b": {"x": 2}}
ScenarioD == Obj(<< <<KeyA, Obj(<< <<KeyX, Num(1)>> >>)>>,
                    <<KeyB, Obj(<< <<KeyX, Num(2)>> >>)>> >>)
\* {"a": {"x": 1}, "b": {"a": {"x": "hi"}, "A": {"x": null}}}: three
\* differently shaped records with the name hint A
ScenarioSameBase ==
    Obj(<< <<KeyA, Obj(<< <<KeyX, Num(1)>> >>)>>,
           <<KeyB, Obj(<< <<KeyA, Obj(<< <<KeyX, Str(StrHi)>> >>)>>,
                          <<KeyUpperA, Obj(<< <<KeyX, Null>> >>)>> >>)>> >>)
\* {"api_response": {"x": 1}}: a field whose hint is the default root name
ScenarioRootHint == Obj(<< <<KeyApiResponse, Obj(<< <<KeyX, Num(1)>> >>)>> >>)
\* {"a": [{"x": 1}, {"b": "hi"}], "b": [[]]}
ScenarioArrays ==
    Obj(<< <<KeyA, Arr(<<Obj(<< <<KeyX, Num(1)>> >>), Obj(<< <<KeyB, Str(StrHi)>> >>)>>)>>,
           <<KeyB, Arr(<<Arr(<<>>)>>)>> >>)

\* {a: null, b: undefined, x: 1}
ScenarioOptional == Obj(<< <<KeyA, Null>>, <<KeyB, Undefined>>, <<KeyX, Num(1)>> >>)

Scenarios == {ScenarioA, ScenarioB, ScenarioC, ScenarioD, ScenarioSameBase,
              ScenarioRootHint, ScenarioArrays, ScenarioOptional}

\* {a: function, b: [function]}
SampleOther == Obj(<< <<KeyA, Func>>, <<KeyB, Arr(<<Func>>)>> >>)

\* Strings around the ISO-8601 pattern: the date and time of StrIso, or a
\* variation of it, then a fraction or none, then a zone or none.
IsoSamples ==
    {d \o f \o z :
        d \in {SubSeq(StrIso, 1, 19), SubSeq(StrIso, 1, 10),
                SubSeq(StrIso, 1, 10) \o <<" ">> \o SubSeq(StrIso, 12, 19),
                SubSeq(StrIso, 3, 19), <<"x">> \o SubSeq(StrIso, 1, 19)},
        f \in {<<>>, <<".", "5">>, <<".">>, <<".", "1", "2">>, <<".", "x">>},
        z \in {<<>>, <<"Z">>, <<"z">>, <<"Z", "Z">>, <<"+", "0", "1", ":", "3", "0">>,
                <<"-", "0", "0", ":", "0", "0">>, <<"+", "1", ":", "3", "0">>}}

\* Further inputs of the single call: a value of another kind, the falsy
\* primitives, 1.5, and the strings around the ISO-8601 pattern.
Samples ==
    {Func, SampleOther, Num(0), Bool(FALSE), Str(<<>>),
     [k |-> "number", n |-> 1, tenths |-> 5]}
    \cup {Str(s) : s \in IsoSamples}

Inputs == SmallTrees \cup Scenarios \cup Samples

RootNames == {ApiResponse, KeyUpperA}

NameS == <<"S">>
NameT == <<"T">>

\* The hints an instance is constructed with: none, {S: {a: 'number'}},
\* {T: {b: 'string'}, S: {}} and {S: {a: 'object'}, T: {a: 'array'}}.
\* Schema names are type names: not empty.
HintSets ==
    { <<>>,
      << <<NameS, Obj(<< <<KeyA, Str(StrNumber)>> >>)>> >>,
      << <<NameT, Obj(<< <<KeyB, Str(StrString)>> >>)>>, <<NameS, Obj(<<>>)>> >>,
      << <<NameS, Obj(<< <<KeyA, Str(StrObject)>> >>)>>,
         <<NameT, Obj(<< <<KeyA, Str(StrArray)>> >>)>> >> }

(***************************************************************************)
(* The APIParser instance                                                  *)
(***************************************************************************)

VARIABLES
    referenceTypes, \* this.referenceTypes
    visited,        \* this.visited
    typeCounter,    \* this.typeCounter
    typeMap,        \* this.typeMap
    types,          \* this.types: the identity of the array it refers to
    arrays,         \* the content of each array, by identity
    outputs,        \* the ParserOutput each parse() call returned, in order
    input,          \* the arguments of the last parse() call
    trace,          \* the inferType calls on record values of the last parse()
    argv,           \* process.argv.slice(2) of a command-line run
    args,           \* this.args of the CLI
    fs,             \* the file system the CLI works on
    exitCode        \* <<code>> once run() has returned, <<>> before

vars == <<referenceTypes, visited, typeCounter, typeMap, types, arrays,
          outputs, input, trace, argv, args, fs, exitCode>>

cliVars == <<argv, args, fs, exitCode>>

\* The library is used without the command line.
NoProcess ==
    /\ argv = <<>>
    /\ args = Obj(<<>>)
    /\ fs = [files |-> EmptyMap, writable |-> TRUE]
    /\ exitCode = <<>>

\* The array allocated by the field initialiser `types: ParsedType[] = []`.
TypesArray == 1

NoInput == [data |-> Null, rootName |-> <<>>]

\* new APIParser(hints)
Constructed(hints) ==
    /\ referenceTypes = hints
    /\ visited = {}
    /\ typeCounter = EmptyMap
    /\ typeMap = EmptyMap
    /\ types = TypesArray
    /\ arrays = [id \in {TypesArray} |-> <<>>]
    /\ outputs = <<>>
    /\ input = NoInput
    /\ trace = <<>>

Init == NoProcess /\ \E hints \in HintSets : Constructed(hints)

\* collectTypes(): sorts this.types in place and returns that same array.
CollectTypes(heap, ref) ==
    [heap |-> [heap EXCEPT ![ref] = SortedTypes(heap[ref])], ret |-> ref]

\* parse(data, rootName).  The timestamp of the metadata is left out.
Parse(data, rootName) ==
    LET st0 == [referenceTypes |-> referenceTypes,
                visited |-> {},
                typeCounter |-> EmptyMap,
                typeMap |-> typeMap,
                types |-> arrays[types],
                trace |-> <<>>]
        r == InferType(data, rootName, st0)
        c == CollectTypes([arrays EXCEPT ![types] = r.st.types], types)
    IN /\ visited' = r.st.visited
       /\ typeCounter' = r.st.typeCounter
       /\ typeMap' = r.st.typeMap
       /\ arrays' = c.heap
       /\ outputs' = Append(outputs,
              [types |-> c.ret,
               metadata |-> [source |-> StrParser, rootType |-> r.ret]])
       /\ input' = [data |-> data, rootName |-> rootName]
       /\ trace' = r.st.trace
       /\ UNCHANGED <<referenceTypes, types>>
       /\ UNCHANGED cliVars

\* One parse() on a fresh instance, over every input of the bounded set.
ParseOnce ==
    /\ outputs = <<>>
    /\ \E data \in Inputs, rootName \in RootNames : Parse(data, rootName)

Next == ParseOnce

Spec == Init /\ [][Next]_vars

MaxCalls == 2

\* parse() called again and again on one instance.
ParseAgain ==
    /\ Len(outputs) < MaxCalls
    /\ \E data \in Scenarios, rootName \in RootNames : Parse(data, rootName)

NextReuse == ParseAgain

SpecReuse == Init /\ [][NextReuse]_vars

(***************************************************************************)
(* Command-line interface                                                  *)
(***************************************************************************)

\* A command-line string or a path is a sequence of lexemes: "--", "=", "/"
\* and the words between them.  The strings inside the files are sequences
\* of characters, as everywhere in the parser.
\* arg.startsWith('--')
StartsWithDashes(arg) == arg # <<>> /\ arg[1] = "--"

\* s.split('=')
RECURSIVE Split(_, _)
Split(s, piece) ==
    IF s = <<>> THEN <<piece>>
    ELSE IF s[1] = "=" THEN <<piece>> \o Split(Tail(s), <<>>)
    ELSE Split(Tail(s), Append(piece, s[1]))

\* obj[key] = val
SetKey(obj, key, val) ==
    IF HasKey(obj, key)
    THEN Obj([i \in DOMAIN obj.entries |->
                 IF obj.entries[i][1] = key THEN <<key, val>> ELSE obj.entries[i]])
    ELSE Obj(Append(obj.entries, <<key, val>>))

\* The `for (const arg of args)` loop of parseArgs.
RECURSIVE ParseArgsFrom(_, _, _)
ParseArgsFrom(rest, i, parsed) ==
    IF i > Len(rest) THEN parsed
    ELSE LET arg == rest[i]
             pieces == Split(Tail(arg), <<>>)
         IN IF ~StartsWithDashes(arg) /\ Falsy(Get(parsed, <<"command">>))
            THEN ParseArgsFrom(rest, i + 1, SetKey(parsed, <<"command">>, Str(arg)))
            ELSE IF StartsWithDashes(arg)
            THEN ParseArgsFrom(rest, i + 1,
                     SetKey(parsed, pieces[1],
                            IF Len(pieces) >= 2 THEN Str(pieces[2]) ELSE Bool(TRUE)))
            ELSE ParseArgsFrom(rest, i + 1, parsed)

ParseArgs(rest) ==
    LET parsed == ParseArgsFrom(rest, 1, Obj(<<>>))
        defaulted == IF Falsy(Get(parsed, <<"command">>)) /\ Len(rest) > 0
                     THEN SetKey(parsed, <<"command">>, Str(<<"help">>))
                     ELSE parsed
        command == Get(defaulted, <<"command">>)
    IN IF command \in {Str(<<"-h">>), Str(<<"--", "help">>)}
       THEN SetKey(defaulted, <<"command">>, Str(<<"help">>))
       ELSE IF command \in {Str(<<"-v">>), Str(<<"--", "version">>)}
       THEN SetKey(defaulted, <<"command">>, Str(<<"version">>))
       ELSE defaulted

\* a || b
OrElse(a, b) == IF Falsy(a) THEN b ELSE a

\* path.join(dir, name)
PathJoin(dir, name) == dir \o <<"/">> \o name

\* The content of a file: source text that JSON.parse decodes to a value,
\* and text it rejects.
JsonText(value) == [text |-> "json", value |-> value]
Malformed == [text |-> "malformed"]

\* A call of a library function: whether it threw, what it returned, and
\* the file system it left.
Returned(ret, disk) == [threw |-> FALSE, ret |-> ret, fs |-> disk]
Threw(disk) == [threw |-> TRUE, ret |-> Undefined, fs |-> disk]

ExistsSync(disk, p) == p.k = "string" /\ p.s \in DOMAIN disk.files

ReadFileSync(disk, p) ==
    IF ExistsSync(disk, p) THEN Returned(disk.files[p.s], disk) ELSE Threw(disk)

\* A read that never throws: undefined for what it cannot decode.
ReadJsonLenient(disk, p) ==
    LET content == ReadFileSync(disk, p)
    IN IF content.threw \/ content.ret.text # "json" THEN Returned(Undefined, disk)
       ELSE Returned(content.ret.value, disk)

\* JSON.parse(fs.readFileSync(p, 'utf8'))
ReadJson(disk, p) ==
    LET content == ReadFileSync(disk, p)
    IN IF content.threw \/ content.ret.text # "json" THEN Threw(disk)
       ELSE Returned(content.ret.value, disk)

WriteFileSync(disk, p, content) ==
    IF p.k = "string" /\ disk.writable
    THEN Returned(Undefined, [disk EXCEPT !.files = MapSet(disk.files, p.s, content)])
    ELSE Threw(disk)

\* Directories are not recorded: making one only fails as a write does.
MkdirSync(disk, p) ==
    IF p.k = "string" /\ disk.writable THEN Returned(Undefined, disk) ELSE Threw(disk)

\* Object.entries(hints) of the hints the parser is constructed with; the
\* hints files of the model hold records.
ReferenceTypesOf(hintsData) ==
    IF ~Falsy(hintsData) /\ hintsData.k = "object" THEN hintsData.entries ELSE <<>>

\* new APIParser(hintsData).parse(data): the result and the instance.
ParserRun(hintsData, data) ==
    LET r == InferType(data, ApiResponse,
                 [referenceTypes |-> ReferenceTypesOf(hintsData), visited |-> {},
                  typeCounter |-> EmptyMap, typeMap |-> EmptyMap,
                  types |-> <<>>, trace |-> <<>>])
        sorted == SortedTypes(r.st.types)
    IN [st |-> [r.st EXCEPT !.types = sorted],
        data |-> data,
        result |-> [types |-> sorted,
                    metadata |-> [source |-> StrParser, rootType |-> r.ret]]]

\* new CodeGenerator({referencePath}): a reference file that is missing or
\* not JSON leaves the default.  The template option is not modelled.
NewCodeGenerator(referencePath, disk) ==
    LET loaded == ReadJson(disk, referencePath)
    IN [referenceTypes |->
           IF ~Falsy(referencePath) /\ ExistsSync(disk, referencePath) /\ ~loaded.threw
           THEN loaded.ret ELSE Obj(<<>>)]

\* generator.generate(parserOutput, outputDir) with writeFiles; iterable
\* tells whether parserOutput.types can be iterated.
Generate(generator, iterable, outputDir, disk) ==
    LET made == MkdirSync(disk, outputDir)
        written == WriteFileSync(disk,
                       Str(PathJoin(outputDir.s, <<"generated-interfaces.ts">>)),
                       [text |-> "code", referenceTypes |-> generator.referenceTypes])
    IN IF ~iterable THEN Threw(disk)
       ELSE IF Falsy(outputDir) THEN Returned(Undefined, disk)
       ELSE IF made.threw THEN Threw(disk)
       ELSE written

KeyTypes == <<"t","y","p","e","s">>

\* `const { types } = parserOutput` of a value decoded from a file, and its
\* use in a for-of loop.
TypesIterable(parserOutput) ==
    /\ parserOutput.k = "object"
    /\ Get(parserOutput, KeyTypes).k \in {"array", "string"}

\* storybook.generate(parserOutput, outputDir): writes the documentation
\* under outputDir and raises when that fails.
StorybookGenerate(outputDir, disk) ==
    WriteFileSync(disk, IF outputDir.k = "string"
                        THEN Str(PathJoin(outputDir.s, <<"storybook.html">>))
                        ELSE outputDir,
                  [text |-> "docs"])

\* What a command returns: the exit code, the file system, and the parser
\* run it made, if any.
NoRun == [made |-> FALSE]
Ran(run) == [made |-> TRUE, st |-> run.st, data |-> run.data, result |-> run.result]
Exit(code, disk, run) == [code |-> code, fs |-> disk, run |-> run]

RunParse(parsed, disk) ==
    LET inputPath == Get(parsed, <<"input">>)
        output == OrElse(Get(parsed, <<"output">>), Str(<<"parsed-types.json">>))
        hints == Get(parsed, <<"hints">>)
        hintsData == IF ~Falsy(hints) /\ ExistsSync(disk, hints)
                     THEN ReadJson(disk, hints)
                     ELSE Returned(Obj(<<>>), disk)
        content == ReadFileSync(disk, inputPath)
        data == ReadJson(disk, inputPath)
        run == ParserRun(hintsData.ret, data.ret)
        written == WriteFileSync(disk, output, JsonText(run.result))
    IN IF Falsy(inputPath) THEN Exit(1, disk, NoRun)
       ELSE IF hintsData.threw THEN Exit(1, disk, NoRun)
       ELSE IF content.threw THEN Exit(1, disk, NoRun)
       ELSE IF data.threw THEN Exit(1, disk, NoRun)
       ELSE IF written.threw THEN Exit(1, disk, Ran(run))
       ELSE Exit(0, written.fs, Ran(run))

RunGenerate(parsed, disk) ==
    LET inputPath == Get(parsed, <<"input">>)
        output == OrElse(Get(parsed, <<"output">>), Str(<<"interfaces.ts">>))
        reference == Get(parsed, <<"reference">>)
        parserOutput == ReadJson(disk, inputPath)
        generator == NewCodeGenerator(reference, disk)
        result == Generate(generator, TypesIterable(parserOutput.ret), output, disk)
    IN IF Falsy(inputPath) THEN Exit(1, disk, NoRun)
       ELSE IF parserOutput.threw THEN Exit(1, disk, NoRun)
       ELSE IF result.threw THEN Exit(1, disk, NoRun)
       ELSE Exit(0, result.fs, NoRun)

\* rendererThrows: whether storybook.generate raises on a parserOutput
\* whose types cannot be iterated.
RunStorybook(parsed, disk, rendererThrows) ==
    LET inputPath == Get(parsed, <<"input">>)
        output == OrElse(Get(parsed, <<"output">>), Str(<<"storybook-docs">>))
        parserOutput == ReadJson(disk, inputPath)
        result == StorybookGenerate(output, disk)
    IN IF Falsy(inputPath) THEN Exit(1, disk, NoRun)
       ELSE IF parserOutput.threw THEN Exit(1, disk, NoRun)
       ELSE IF ~TypesIterable(parserOutput.ret) /\ rendererThrows THEN Exit(1, disk, NoRun)
       ELSE IF result.threw THEN Exit(1, disk, NoRun)
       ELSE Exit(0, result.fs, NoRun)

RunAll(parsed, disk) ==
    LET inputPath == Get(parsed, <<"input">>)
        outputDir == OrElse(Get(parsed, <<"outputDir">>), Str(<<"output">>))
        reference == Get(parsed, <<"reference">>)
        data == ReadJson(disk, inputPath)
        loaded == ReadJson(disk, reference)
        hintsData == IF ~Falsy(reference) /\ ExistsSync(disk, reference) /\ ~loaded.threw
                     THEN loaded.ret ELSE Obj(<<>>)
        run == ParserRun(hintsData, data.ret)
        made == MkdirSync(disk, outputDir)
        written == WriteFileSync(disk, Str(PathJoin(outputDir.s, <<"parsed-types.json">>)),
                                 JsonText(run.result))
        generated == Generate(NewCodeGenerator(reference, disk), TRUE,
                              Str(PathJoin(outputDir.s, <<"interfaces">>)), written.fs)
        docs == StorybookGenerate(Str(PathJoin(outputDir.s, <<"docs">>)), generated.fs)
    IN IF Falsy(inputPath) THEN Exit(1, disk, NoRun)
       ELSE IF data.threw THEN Exit(1, disk, NoRun)
       ELSE IF outputDir.k # "string" \/ made.threw \/ written.threw
       THEN Exit(1, disk, Ran(run))
       ELSE IF generated.threw THEN Exit(1, written.fs, Ran(run))
       ELSE IF docs.threw THEN Exit(1, generated.fs, Ran(run))
       ELSE Exit(0, docs.fs, Ran(run))

\* run() returns r.code and process.exit ends the process with it; the
\* parser a command made is left as its parse() left it.
Finish(r) ==
    /\ exitCode = <<>>
    /\ exitCode' = <<r.code>>
    /\ fs' = r.fs
    /\ UNCHANGED <<argv, args, types>>
    /\ IF r.run.made
       THEN /\ referenceTypes' = r.run.st.referenceTypes
            /\ visited' = r.run.st.visited
            /\ typeCounter' = r.run.st.typeCounter
            /\ typeMap' = r.run.st.typeMap
            /\ arrays' = [arrays EXCEPT ![types] = r.run.st.types]
            /\ outputs' = Append(outputs, [types |-> types,
                                           metadata |-> r.run.result.metadata])
            /\ input' = [data |-> r.run.data, rootName |-> ApiResponse]
            /\ trace' = r.run.st.trace
       ELSE UNCHANGED <<referenceTypes, visited, typeCounter, typeMap, arrays,
                        outputs, input, trace>>

\* The cases of the switch of run().
ParseCommand ==
    /\ Get(args, <<"command">>) \in {Str(<<"parse">>), Str(<<"generatestorybook">>)}
    /\ Finish(RunParse(args, fs))

GenerateCommand ==
    /\ Get(args, <<"command">>) = Str(<<"generate">>)
    /\ Finish(RunGenerate(args, fs))

StorybookCommand ==
    /\ Get(args, <<"command">>) = Str(<<"storybook">>)
    /\ \E rendererThrows \in BOOLEAN : Finish(RunStorybook(args, fs, rendererThrows))

AllCommand ==
    /\ Get(args, <<"command">>) = Str(<<"all">>)
    /\ Finish(RunAll(args, fs))

HelpCommand ==
    /\ Get(args, <<"command">>) = Str(<<"help">>)
    /\ Finish(Exit(0, fs, NoRun))

VersionCommand ==
    /\ Get(args, <<"command">>) = Str(<<"version">>)
    /\ Finish(Exit(0, fs, NoRun))

KnownCommands ==
    {Str(<<"parse">>), Str(<<"generatestorybook">>), Str(<<"generate">>),
     Str(<<"storybook">>), Str(<<"all">>), Str(<<"help">>), Str(<<"version">>)}

UnknownCommand ==
    /\ Get(args, <<"command">>) \notin KnownCommands
    /\ Finish(Exit(1, fs, NoRun))

\* The command lines of the model: at most one command word, then options.
InFile == <<"in.json">>
HintsFile == <<"h.json">>

Optional(arg) == {<<>>, <<arg>>}

Argvs ==
    {c \o i \o o \o d \o h \o r :
        c \in {<<>>} \cup {<<w>> : w \in {<<"parse">>, <<"generatestorybook">>,
                     <<"generate">>, <<"storybook">>, <<"all">>, <<"help">>,
                     <<"version">>, <<"deploy">>, <<"-h">>, <<"-v">>}},
        i \in Optional(<<"--", "input", "=">> \o InFile) \cup {<< <<"--", "input">> >>},
        o \in Optional(<<"--", "output", "=", "out">>),
        d \in Optional(<<"--", "output-dir", "=", "build">>)
               \cup {<< <<"--", "outputDir", "=", "build">> >>},
        h \in Optional(<<"--", "hints", "=">> \o HintsFile),
        r \in Optional(<<"--", "reference", "=">> \o HintsFile)}

\* {"types": [], "metadata": {"rootType": "number"}}: a parser output
ParsedDoc ==
    Obj(<< <<KeyTypes, Arr(<<>>)>>,
           << <<"m","e","t","a","d","a","t","a">>,
              Obj(<< << <<"r","o","o","t","T","y","p","e">>, Str(StrNumber) >> >>) >> >>)

\* {"S": {"id": "number"}}
HintsDoc == Obj(<< <<NameS, Obj(<< <<KeyId, Str(StrNumber)>> >>)>> >>)

\* The input file and the hints file are each missing, malformed or JSON,
\* and writing works or fails.
FileSystems ==
    {[files |-> inFile @@ hintsFile, writable |-> w] :
        inFile \in {EmptyMap} \cup {InFile :> c : c \in
                      {Malformed, JsonText(ScenarioA), JsonText(ParsedDoc)}},
        hintsFile \in {EmptyMap} \cup {HintsFile :> c : c \in
                      {Malformed, JsonText(HintsDoc)}},
        w \in BOOLEAN}

\* A process started on a command line: new CLI(process.argv.slice(2)).
InitCLI ==
    /\ argv \in Argvs
    /\ args = ParseArgs(argv)
    /\ fs \in FileSystems
    /\ exitCode = <<>>
    /\ Constructed(<<>>)

NextCLI ==
    \/ ParseCommand
    \/ GenerateCommand
    \/ StorybookCommand
    \/ AllCommand
    \/ HelpCommand
    \/ VersionCommand
    \/ UnknownCommand

SpecCLI == InitCLI /\ [][NextCLI]_vars

(***************************************************************************)
(* Properties                                                              *)
(***************************************************************************)

\* The content a caller reads from the k-th output's types.
OutputTypes(k) == arrays[outputs[k].types]

NamesOf(ts) == {ts[i].name : i \in DOMAIN ts}

FieldNames(t) == [i \in DOMAIN t.fields |-> t.fields[i].name]

\* A call on a record matching no reference schema whose fingerprint was
\* not yet in the cache, and one whose fingerprint was.
NewlyNamed(e) == e.ref = Null /\ GetFingerprint(e.value) \notin e.before.visited

SeenBefore(e) == e.ref = Null /\ GetFingerprint(e.value) \in e.before.visited

\* C1: in every output of parse(), no two entries of types have the same
\* name.
C1_NamesUnique ==
    \A k \in DOMAIN outputs :
        \A i, j \in DOMAIN OutputTypes(k) :
            i # j => OutputTypes(k)[i].name # OutputTypes(k)[j].name

\* A later parse() has counted a name for the first time in its call while
\* the Catalog already held that name: addType was asked to add it again.
C1_Witness ==
    /\ Len(outputs) >= 2
    /\ \E i \in DOMAIN trace :
          /\ NewlyNamed(trace[i])
          /\ trace[i].ret \in NamesOf(trace[i].before.types)
          /\ CounterOf(trace[i].after.typeCounter, trace[i].ret) = 1

\* C2: a record whose fingerprint was already seen in this call is given
\* the name returned for the first record with that fingerprint.
C2_ReusesFirstName ==
    \A i, j \in DOMAIN trace :
        ( /\ NewlyNamed(trace[i])
          /\ SeenBefore(trace[j])
          /\ GetFingerprint(trace[i].value) = GetFingerprint(trace[j].value) )
        => trace[j].ret = trace[i].ret

PrimitiveTypes == {StrAny, StrString, StrNumber, StrBoolean, StrDate}

\* A type expression without its trailing '[]'s.
RECURSIVE StripBrackets(_)
StripBrackets(t) ==
    IF Len(t) >= 2 /\ SubSeq(t, Len(t) - 1, Len(t)) = StrBrackets
    THEN StripBrackets(SubSeq(t, 1, Len(t) - 2))
    ELSE t

SchemaNames == {referenceTypes[i][1] : i \in DOMAIN referenceTypes}

\* C3: every field type of the output is a primitive or an array over one,
\* or names (under its '[]'s) a reference schema or a RecordType of types.
C3_FieldTypesBound ==
    \A k \in DOMAIN outputs :
        \A i \in DOMAIN OutputTypes(k) :
            \A j \in DOMAIN OutputTypes(k)[i].fields :
                StripBrackets(OutputTypes(k)[i].fields[j].type)
                    \in PrimitiveTypes \cup SchemaNames \cup NamesOf(OutputTypes(k))

\* C4: within one parse(), the names returned for newly named records are
\* pairwise distinct.
C4_NewNamesDistinct ==
    \A i, j \in DOMAIN trace :
        (i # j /\ NewlyNamed(trace[i]) /\ NewlyNamed(trace[j]))
        => trace[i].ret # trace[j].ret

\* What a fresh instance with the same hints returns as types for the
\* last input.
FreshTypes ==
    SortedTypes(InferType(input.data, input.rootName,
        [referenceTypes |-> referenceTypes, visited |-> {},
         typeCounter |-> EmptyMap, typeMap |-> EmptyMap,
         types |-> <<>>, trace |-> <<>>]).st.types)

\* C5: the types a parse() call returns are those a fresh instance returns
\* for that call's input.
C5_FreshPerCall ==
    outputs # <<>> => OutputTypes(Len(outputs)) = FreshTypes

\* C6: no step changes the content or order of the types of an output
\* that was already returned.
C6_OutputImmutable ==
    [][\A k \in DOMAIN outputs : arrays'[outputs[k].types] = arrays[outputs[k].types]]_vars

\* The call that registered the RecordType named n: the first call to
\* return with n in the Catalog.
Registrant(n) ==
    trace[CHOOSE i \in DOMAIN trace :
             /\ n \in NamesOf(trace[i].after.types)
             /\ \A h \in 1..(i - 1) : n \notin NamesOf(trace[h].after.types)]

\* C7: every field of a registered RecordType is required exactly when the
\* sampled value of that field is neither null nor undefined.
C7_RequiredIffPresent ==
    \A i \in DOMAIN arrays[types] :
        LET t == arrays[types][i]
            v == Registrant(t.name).value
        IN /\ FieldNames(t) = Keys(v)
           /\ \A j \in DOMAIN t.fields :
                 t.fields[j].required = (v.entries[j][2].k \notin {"null", "undefined"})

\* A registered RecordType with a null field, an undefined field and a
\* field that is neither.
C7_Witness ==
    /\ outputs # <<>>
    /\ \E i \in DOMAIN arrays[types] :
          LET v == Registrant(arrays[types][i].name).value
          IN /\ \E j \in DOMAIN v.entries : v.entries[j][2].k = "null"
             /\ \E j \in DOMAIN v.entries : v.entries[j][2].k = "undefined"
             /\ \E j \in DOMAIN v.entries : v.entries[j][2].k \notin {"null", "undefined"}

\* C8: a call on a record that matches a reference schema returns that
\* schema's name, makes no nested call and leaves the fingerprint cache,
\* the name counters and the Catalog as they were.
C8_ReferencePrecedence ==
    \A i \in DOMAIN trace :
        trace[i].ref # Null =>
            /\ trace[i].ret = trace[i].ref.s
            /\ trace[i].after = trace[i].before
            /\ trace[i].nested = 0

\* A nested record with a record-valued field matched a reference schema.
C8_Witness ==
    \E i \in DOMAIN trace :
        /\ trace[i].ref # Null
        /\ trace[i].value # input.data
        /\ \E j \in DOMAIN trace[i].value.entries : trace[i].value.entries[j][2].k = "object"

\* The runtime kind of a value, null, array and object told apart.
KindName(v) ==
    CASE v.k = "null" -> StrNull
      [] v.k = "array" -> StrArray
      [] v.k = "object" -> StrObject
      [] OTHER -> TypeOf(v)

\* Every declared field is present with the declared kind.
SchemaFits(obj, schema) ==
    \A i \in DOMAIN schema.entries :
        /\ HasKey(obj, schema.entries[i][1])
        /\ schema.entries[i][2] = Str(KindName(Get(obj, schema.entries[i][1])))

FirstFit(obj, schemas) ==
    IF \E i \in DOMAIN schemas : SchemaFits(obj, schemas[i][2])
    THEN Str(schemas[CHOOSE i \in DOMAIN schemas :
                        /\ SchemaFits(obj, schemas[i][2])
                        /\ \A h \in 1..(i - 1) : ~SchemaFits(obj, schemas[h][2])][1])
    ELSE Null

\* C9: the matcher returns the name of the first schema, in order, whose
\* every declared field is present with the declared kind, and none when
\* there is no such schema.
C9_FirstFittingSchema ==
    \A i \in DOMAIN trace :
        trace[i].ref = FirstFit(trace[i].value, referenceTypes)

\* C10: when the root is a record matching no reference schema, rootType
\* names a RecordType of types whose fields are the root record's fields,
\* in order.
C10_RootTypeIsRoot ==
    (outputs # <<>> /\ input.data.k = "object"
        /\ MatchReferenceType(input.data, referenceTypes) = Null)
    => \E i \in DOMAIN OutputTypes(Len(outputs)) :
          /\ OutputTypes(Len(outputs))[i].name = outputs[Len(outputs)].metadata.rootType
          /\ FieldNames(OutputTypes(Len(outputs))[i]) = Keys(input.data)

\* The kinds of value the claims call supported.
SupportedKinds == {"null", "undefined", "string", "number", "boolean", "array", "object"}

\* The number of record nodes of a value, at any depth.
RECURSIVE RecordNodes(_)
RECURSIVE RecordNodesIn(_)
RecordNodes(v) ==
    CASE v.k = "object" ->
            1 + RecordNodesIn([i \in DOMAIN v.entries |-> v.entries[i][2]])
      [] v.k = "array" -> RecordNodesIn(v.items)
      [] OTHER -> 0

RecordNodesIn(vs) ==
    IF vs = <<>> THEN 0 ELSE RecordNodes(vs[1]) + RecordNodesIn(Tail(vs))

\* C12: parse() returns an output for every input tree: the call makes at
\* most one inferType call per record node of the input and returns a
\* root type, and a value of any other runtime kind is typed 'any', as the
\* root and as a field, and registers nothing.
C12_ParseReturns ==
    outputs # <<>> =>
          /\ Len(trace) <= RecordNodes(input.data)
          /\ outputs[Len(outputs)].metadata.rootType # <<>>
          /\ input.data.k \notin SupportedKinds =>
                /\ outputs[Len(outputs)].metadata.rootType = StrAny
                /\ arrays[types] = <<>>
          /\ \A i \in DOMAIN arrays[types] :
                LET t == arrays[types][i]
                    v == Registrant(t.name).value
                IN \A j \in DOMAIN t.fields :
                      v.entries[j][2].k \notin SupportedKinds => t.fields[j].type = StrAny

\* A registered RecordType with a field sampled from a value of another
\* kind, and one sampled from an array of them.
C12_Witness ==
    /\ outputs # <<>>
    /\ \E i \in DOMAIN arrays[types] :
          LET v == Registrant(arrays[types][i].name).value
          IN /\ \E j \in DOMAIN v.entries : v.entries[j][2].k \notin SupportedKinds
             /\ \E j \in DOMAIN v.entries :
                   /\ v.entries[j][2].k = "array"
                   /\ v.entries[j][2].items # <<>>
                   /\ v.entries[j][2].items[1].k \notin SupportedKinds

\* C13: when rootType names a RecordType of types, that RecordType is the
\* first element of types, whatever root name parse() was given.
C13_RootTypeFirst ==
    \A k \in DOMAIN outputs :
        outputs[k].metadata.rootType \in NamesOf(OutputTypes(k))
        => OutputTypes(k)[1].name = outputs[k].metadata.rootType

\* C14: among the types other than the root type, a type named as the type
\* of a field of another type comes after that other type.
C14_ReferencedAfterReferrers ==
    \A k \in DOMAIN outputs :
        LET ts == OutputTypes(k)
            root == outputs[k].metadata.rootType
        IN \A i, j \in DOMAIN ts :
              ( /\ i # j
                /\ ts[i].name # root
                /\ ts[j].name # root
                /\ \E f \in DOMAIN ts[i].fields : ts[i].fields[f].type = ts[j].name )
              => i < j

\* The files the command wrote: those that were not there when it started.
Written == DOMAIN fs.files \ {InFile, HintsFile}

\* The directory given with --output-dir=<dir> on the command line,
\* 'output' when the option is not given.
OutputDirOption(rest) ==
    IF \E i \in DOMAIN rest :
          Len(rest[i]) > 3 /\ SubSeq(rest[i], 1, 3) = <<"--", "output-dir", "=">>
    THEN LET arg == rest[CHOOSE i \in DOMAIN rest :
                        Len(rest[i]) > 3
                        /\ SubSeq(rest[i], 1, 3) = <<"--", "output-dir", "=">>]
         IN SubSeq(arg, 4, Len(arg))
    ELSE <<"output">>

IsUnder(p, dir) == Len(p) > Len(dir) /\ SubSeq(p, 1, Len(dir) + 1) = dir \o <<"/">>

\* C15: an `all` command that ends with exit code 0 has written
\* parsed-types.json, a file under interfaces/ and a file under docs/ in
\* the directory given with --output-dir=<dir>, in 'output' when the option
\* is not given, and has written nowhere else.
C15_AllWritesUnderOutputDir ==
    (exitCode = <<0>> /\ argv # <<>> /\ argv[1] = <<"all">>)
    => LET dir == OutputDirOption(argv)
       IN /\ PathJoin(dir, <<"parsed-types.json">>) \in Written
          /\ \E p \in Written : IsUnder(p, PathJoin(dir, <<"interfaces">>))
          /\ \E p \in Written : IsUnder(p, PathJoin(dir, <<"docs">>))
          /\ \A p \in Written : IsUnder(p, dir)

\* The command word of the command line, if it starts with one.
CommandWord == IF argv # <<>> /\ ~StartsWithDashes(argv[1]) THEN argv[1] ELSE <<>>

RunsPipeline ==
    CommandWord \in {<<"parse">>, <<"generate">>, <<"storybook">>, <<"all">>}

\* Whether the command line carries --name=<value>, and a file of that
\* option that is missing or is not JSON.
Given(name, path) == \E i \in DOMAIN argv : argv[i] = <<"--", name, "=">> \o path

Missing(path) == path \notin DOMAIN fs.files

NotJson(path) == path \in DOMAIN fs.files /\ fs.files[path].text # "json"

\* The option with which the command takes its hints or reference file.
ReadsHintsWith(name) ==
    \/ CommandWord = <<"parse">> /\ name = "hints"
    \/ CommandWord \in {<<"generate">>, <<"all">>} /\ name = "reference"

UnknownWord ==
    /\ CommandWord # <<>>
    /\ Str(CommandWord) \notin KnownCommands \cup {Str(<<"-h">>), Str(<<"-v">>)}

\* A failure on the input side, and a failed write.
InputFailure ==
    RunsPipeline /\ (~Given("input", InFile) \/ Missing(InFile) \/ NotJson(InFile))

WriteFailure == RunsPipeline /\ ~fs.writable

\* C16 as stated: a command with an unknown command word, without --input,
\* with an input, hints or reference file that is missing or not JSON, or
\* with a failing write does not end with exit code 0.
C16_EveryFailureExitsNonZero ==
    ( /\ exitCode # <<>>
      /\ \/ UnknownWord
         \/ InputFailure
         \/ WriteFailure
         \/ \E name \in {"hints", "reference"} :
               /\ ReadsHintsWith(name)
               /\ Given(name, HintsFile)
               /\ (Missing(HintsFile) \/ NotJson(HintsFile)) )
    => exitCode # <<0>>

\* C16, amended: a command with an unknown command word, without --input,
\* with an input file that is missing or not JSON, with a failing write, or
\* a parse command with a --hints file that is there but not JSON, does not
\* end with exit code 0.
C16_FatalFailureExitsNonZero ==
    ( /\ exitCode # <<>>
      /\ \/ UnknownWord
         \/ InputFailure
         \/ WriteFailure
         \/ /\ CommandWord = <<"parse">>
            /\ Given("hints", HintsFile)
            /\ NotJson(HintsFile) )
    => exitCode # <<0>>

\* A parse command ended with exit code 1 on a malformed hints file alone.
C16_Witness ==
    /\ exitCode = <<1>>
    /\ CommandWord = <<"parse">>
    /\ Given("input", InFile)
    /\ ~Missing(InFile) /\ ~NotJson(InFile)
    /\ fs.writable
    /\ Given("hints", HintsFile) /\ NotJson(HintsFile)

\* The ISO-8601 shape read from the end: the date and time, then nothing or
\* a dot and digits, then Z or a signed hh:mm.
DateTimeShaped(s) ==
    /\ Len(s) >= 19
    /\ \A i \in 1..19 :
          CASE i \in {5, 8} -> s[i] = "-"
            [] i = 11 -> s[i] = "T"
            [] i \in {14, 17} -> s[i] = ":"
            [] OTHER -> IsDigit(s[i])

ZoneShaped(z) ==
    \/ z = <<"Z">>
    \/ /\ Len(z) = 6
       /\ z[1] \in {"+", "-"}
       /\ z[4] = ":"
       /\ \A i \in {2, 3, 5, 6} : IsDigit(z[i])

Temporal(s) ==
    /\ DateTimeShaped(s)
    /\ \E zl \in {1, 6} :
          /\ Len(s) >= 19 + zl
          /\ ZoneShaped(SubSeq(s, Len(s) - zl + 1, Len(s)))
          /\ LET frac == SubSeq(s, 20, Len(s) - zl)
             IN \/ frac = <<>>
                \/ /\ Len(frac) >= 2
                   /\ frac[1] = "."
                   /\ \A i \in 2..Len(frac) : IsDigit(frac[i])

PrimitiveKinds == {"null", "undefined", "string", "number", "boolean"}

Classified(v) ==
    CASE v.k \in {"null", "undefined"} -> StrAny
      [] v.k = "string" -> IF Temporal(v.s) THEN StrDate ELSE StrString
      [] v.k = "number" -> StrNumber
      [] v.k = "boolean" -> StrBoolean

\* C17: null and undefined are typed 'any', a string 'Date' exactly when it
\* has the ISO-8601 shape and 'string' otherwise, every number 'number',
\* a boolean 'boolean', as the root and as a field; a primitive root makes
\* no call on a record and registers nothing.
C17_PrimitivesClassified ==
    outputs # <<>> =>
        /\ input.data.k \in PrimitiveKinds =>
              /\ outputs[Len(outputs)].metadata.rootType = Classified(input.data)
              /\ arrays[types] = <<>>
              /\ trace = <<>>
        /\ \A i \in DOMAIN arrays[types] :
              LET t == arrays[types][i]
                  v == Registrant(t.name).value
              IN \A j \in DOMAIN t.fields :
                    v.entries[j][2].k \in PrimitiveKinds
                    => t.fields[j].type = Classified(v.entries[j][2])

\* A string with a fraction and a numeric offset was typed 'Date'.
C17_Witness ==
    /\ outputs # <<>>
    /\ input.data.k = "string"
    /\ \E i \in DOMAIN input.data.s : input.data.s[i] = "."
    /\ \E i \in DOMAIN input.data.s : input.data.s[i] = "+"
    /\ outputs[Len(outputs)].metadata.rootType = StrDate

\* The values inferType may look at: the value, the field values of a
\* record, and of an array only its first element.
RECURSIVE Sampled(_)
Sampled(v) ==
    {v} \cup
    CASE v.k = "object" -> UNION {Sampled(v.entries[i][2]) : i \in DOMAIN v.entries}
      [] v.k = "array" -> IF v.items = <<>> THEN {} ELSE Sampled(v.items[1])
      [] OTHER -> {}

\* What a fresh instance with the same hints returns for the first
\* element of the root array.
FirstElement ==
    InferType(input.data.items[1], input.rootName \o StrItem,
        [referenceTypes |-> referenceTypes, visited |-> {},
         typeCounter |-> EmptyMap, typeMap |-> EmptyMap,
         types |-> <<>>, trace |-> <<>>])

\* C18: an array is typed by its first element plus '[]' and no call is
\* made on a value behind a later element; parse() of an array returns and
\* registers what inferType gives for its first element alone, and an
\* empty array is typed 'any[]' and registers nothing.
C18_ArrayFromFirstElement ==
    outputs # <<>> =>
        /\ \A i \in DOMAIN trace : trace[i].value \in Sampled(input.data)
        /\ (input.data.k = "array" /\ input.data.items = <<>>) =>
              /\ outputs[Len(outputs)].metadata.rootType = StrAny \o StrBrackets
              /\ arrays[types] = <<>>
        /\ (input.data.k = "array" /\ input.data.items # <<>>) =>
              /\ outputs[Len(outputs)].metadata.rootType = FirstElement.ret \o StrBrackets
              /\ arrays[types] = SortedTypes(FirstElement.st.types)
              /\ trace = FirstElement.st.trace
        /\ \A i \in DOMAIN arrays[types] :
              LET t == arrays[types][i]
                  v == Registrant(t.name).value
              IN \A j \in DOMAIN t.fields :
                    v.entries[j][2].k = "array" =>
                        IF v.entries[j][2].items = <<>>
                        THEN t.fields[j].type = StrAny \o StrBrackets
                        ELSE v.entries[j][2].items[1].k \in PrimitiveKinds =>
                                t.fields[j].type =
                                    Classified(v.entries[j][2].items[1]) \o StrBrackets

\* The root is an array whose first element is a primitive and whose second
\* element is a record: nothing was registered.
C18_Witness ==
    /\ outputs # <<>>
    /\ input.data.k = "array"
    /\ Len(input.data.items) >= 2
    /\ input.data.items[1].k \in PrimitiveKinds
    /\ input.data.items[2].k = "object"
    /\ arrays[types] = <<>>

\* The (field name, coarse kind) pairs of a record.
KindPairs(v) == {<<v.entries[i][1], KindName(v.entries[i][2])>> : i \in DOMAIN v.entries}

\* C19: two records met in one parse() have the same fingerprint exactly
\* when they have the same set of (field name, coarse kind) pairs, an
\* array and an object being different kinds.
C19_FingerprintIsKindSet ==
    \A i, j \in DOMAIN trace :
        (GetFingerprint(trace[i].value) = GetFingerprint(trace[j].value))
        <=> (KindPairs(trace[i].value) = KindPairs(trace[j].value))

\* C20: within one parse(), a RecordType that is in the Catalog when a call
\* on a record starts is there, with the same name and the same fields,
\* when the call returns, at every later return and when parse() ends, and
\* the name is bound to it in typeMap; only the positions change.
C20_BindingsStable ==
    /\ \A i \in DOMAIN trace :
          /\ Range(trace[i].before.types) \subseteq Range(trace[i].after.types)
          /\ Range(trace[i].after.types) \subseteq Range(arrays[types])
          /\ \A j \in DOMAIN trace :
                i < j => Range(trace[i].after.types) \subseteq Range(trace[j].after.types)
    /\ \A i \in DOMAIN arrays[types] :
          /\ arrays[types][i].name \in DOMAIN typeMap
          /\ typeMap[arrays[types][i].name] = arrays[types][i]

\* A call counted its name for the first time in this parse() while the
\* Catalog held a RecordType of that name with other fields: the new
\* registration was ignored.
C20_Witness ==
    /\ Len(outputs) >= 2
    /\ \E i \in DOMAIN trace :
          /\ NewlyNamed(trace[i])
          /\ CounterOf(trace[i].after.typeCounter, trace[i].ret) = 1
          /\ \E k \in DOMAIN trace[i].before.types :
                /\ trace[i].before.types[k].name = trace[i].ret
                /\ FieldNames(trace[i].before.types[k]) # Keys(trace[i].value)

\* C21: in one parse() on a fresh instance, every record that matches no
\* reference schema and whose fingerprint is new when it is met is in the
\* returned Catalog under the name returned for it, with its field names
\* in order, and the Catalog has as many RecordTypes as fingerprints were
\* recorded.
C21_FirstSeenRegistered ==
    outputs # <<>> =>
        /\ \A i \in DOMAIN trace :
              NewlyNamed(trace[i]) =>
                  \E k \in DOMAIN arrays[types] :
                      /\ arrays[types][k].name = trace[i].ret
                      /\ FieldNames(arrays[types][k]) = Keys(trace[i].value)
        /\ Len(arrays[types]) = Cardinality(visited)

=============================================================================
